---- MODULE Spec2Model ----
(***************************************************************************)
(* Signaling and peer negotiation of the vidchat client (App component).   *)
(* Two browser clients run the App component of src/unnamed/part_000; the  *)
(* relay forwards what a client emits to the other member of the room.     *)
(* RTCPeerConnection follows the W3C signaling state machine, with its     *)
(* operations chain: createOffer, createAnswer, setLocalDescription,       *)
(* setRemoteDescription and addIceCandidate are queued on the connection   *)
(* and settle one at a time, in call order.                                *)
(***************************************************************************)
EXTENDS Naturals, Integers, Sequences, FiniteSets, TLC

VARIABLES
    media,          \* outcome of getUserMedia: "pending", "granted", "denied"
    roomId,         \* useState roomId
    userId,         \* useState userId
    listeners,      \* one entry per run of the listener effect: the localStream its closures saw
    pcs,            \* every RTCPeerConnection the client has created, in creation order
    ref,            \* peerConnectionRef.current as an index into pcs (0 = null)
    inbox,          \* relay -> client, in delivery order
    room,           \* relay: the members of the room
    messages,       \* useState messages
    loading,        \* useState loading
    error,          \* useState error
    isScreenSharing,\* useState isScreenSharing
    live,           \* local tracks that are acquired and not stopped
    emitted,        \* how many times the client emitted each event
    outstanding,    \* offers emitted since the last answer received or close
    invoked,        \* handler invocations made for the latest inbound message
    lostCands,      \* received candidates that were never handed to a connection or were rejected
    joinLog,        \* join-room events in the order the relay saw them
    shareRound,     \* offers emitted before display tracks were added to a Connected connection (-1: never)
    presses,        \* Send, Start Screen Share and Disconnect presses that ran the handler's body
    chatWhenClosed, \* a chat handler has run at a client whose connection was closed
    alerted         \* the latest Join Room press ended in the alert for a missing room id or name

vars == <<media, roomId, userId, listeners, pcs, ref, inbox, room, messages,
          loading, error, isScreenSharing, live, emitted, outstanding,
          invoked, lostCands, joinLog, shareRound, presses, chatWhenClosed, alerted>>

(*************************** bounds ****************************************)
MaxJoins == 3
MaxPresses == 2
MaxCand == 1
MaxRejoins == 4

(*************************** constants *************************************)
Clients == {"A", "B"}
Peer(c) == IF c = "A" THEN "B" ELSE "A"
NameOf(c) == IF c = "A" THEN "alice" ELSE "bob"
RoomIds == {"r1"}
Texts == {"", "hi"}
CameraTracks == {"cam", "mic"}
DisplayTracks == {"screen"}
Events == {"join-room", "offer", "answer", "ice-candidate", "send-message", "disconnect"}

NoDesc == [type |-> "none", from |-> "-", pc |-> 0, re |-> 0, tracks |-> {}]
NoCand == [from |-> "-", pc |-> 0, k |-> 0]
Op(o, d, cand, cont, early) ==
    [op |-> o, desc |-> d, cand |-> cand, cont |-> cont, early |-> early]
Msg(ev, d, cand, text) == [ev |-> ev, desc |-> d, cand |-> cand, text |-> text]

\* new RTCPeerConnection(...) followed by addTrack of every local track
NewPeerConnection(tracks) ==
    [closed |-> FALSE, sig |-> "stable", local |-> NoDesc, remote |-> NoDesc,
     prevLocal |-> NoDesc, tracks |-> tracks, cands |-> <<>>, chain |-> <<>>,
     gathered |-> 0]


(*************************** the media engine ******************************)
\* RTCPeerConnection.close(): pending operations are abandoned and never settle
Close(pc) == [pc EXCEPT !.closed = TRUE, !.sig = "closed", !.chain = <<>>]

\* A call of an asynchronous method on connection r: nothing happens through
\* a null ref (the `?.` and `if` guards), a closed connection rejects at once,
\* otherwise the operation is appended to the connection's operations chain.
CallOn(pcseq, r, o) ==
    IF r = 0 THEN pcseq
    ELSE IF pcseq[r].closed THEN pcseq
    ELSE [pcseq EXCEPT ![r].chain = Append(@, o)]

\* setLocalDescription(d) may be applied in the connection's signaling state
LocalOk(pc, p, d) ==
    /\ d.pc = p
    /\ \/ d.type = "offer" /\ pc.sig \in {"stable", "have-local-offer"}
       \/ d.type = "answer" /\ pc.sig = "have-remote-offer"

ApplyLocal(pc, d) ==
    IF d.type = "offer"
    THEN [pc EXCEPT !.sig = "have-local-offer", !.local = d]
    ELSE [pc EXCEPT !.sig = "stable", !.local = d, !.prevLocal = d]

\* setRemoteDescription(d) may be applied; an offer that meets a pending
\* local offer is accepted only by an engine that rolls back implicitly
RemoteOk(pc, d, rollback) ==
    \/ d.type = "offer" /\ pc.sig \in {"stable", "have-remote-offer"}
    \/ d.type = "offer" /\ pc.sig = "have-local-offer" /\ rollback
    \/ d.type = "answer" /\ pc.sig = "have-local-offer"

ApplyRemote(pc, d) ==
    IF d.type = "offer"
    THEN [pc EXCEPT !.sig = "have-remote-offer", !.remote = d,
                    !.local = pc.prevLocal]
    ELSE [pc EXCEPT !.sig = "stable", !.remote = d, !.prevLocal = pc.local]

\* addIceCandidate settles: applied only when a remote description is set
IceOk(pc) == pc.remote # NoDesc

ApplyIce(pc, o) ==
    [pc EXCEPT !.cands = Append(@, [cand |-> o.cand, early |-> o.early])]

Pop(pc) == [pc EXCEPT !.chain = Tail(@)]

\* Connected: the connection in the ref is open and stable with both descriptions set
Connected(pcseq, r) ==
    /\ r # 0
    /\ ~pcseq[r].closed
    /\ pcseq[r].sig = "stable"
    /\ pcseq[r].local # NoDesc
    /\ pcseq[r].remote # NoDesc

\* The negotiation phase of client c, read off the connection in its ref
Phase(c) ==
    IF ref[c] = 0 THEN "none"
    ELSE IF Connected(pcs[c], ref[c]) THEN "connected"
    ELSE pcs[c][ref[c]].sig

(*************************** the relay *************************************)
\* The relay hands what c emits to every other member of c's room, in order.
Forward(c, rm, box, m) ==
    [d \in Clients |->
        IF d # c /\ c \in rm /\ d \in rm THEN Append(box[d], m) ELSE box[d]]

Count(e, c, ev) == [e EXCEPT ![c][ev] = @ + 1]

(*************************** handlers **************************************)
createOffer(pcseq, r) ==
    CallOn(pcseq, r, Op("createOffer", NoDesc, NoCand, "setLocal", FALSE))

handleOffer(pcseq, r, offer) ==
    CallOn(pcseq, r, Op("setRemote", offer, NoCand, "createAnswer", FALSE))

onUserConnected(pcseq, r, localStream) ==
    IF localStream THEN createOffer(pcseq, r) ELSE pcseq

onAnswer(pcseq, r, answer) ==
    CallOn(pcseq, r, Op("setRemote", answer, NoCand, "none", FALSE))

\* (mutant) the candidate is applied on receipt, past the pending operations
onIceCandidateEager(pcseq, r, cand) ==
    IF r = 0 THEN pcseq
    ELSE [pcseq EXCEPT ![r].cands = Append(@, [cand |-> cand, early |-> TRUE])]

onIceCandidate(pcseq, r, cand) ==
    CallOn(pcseq, r,
           Op("addIce", NoDesc, cand, "none",
              IF r = 0 THEN FALSE ELSE pcseq[r].remote = NoDesc))

onReceiveMessage(prev, msg) == Append(prev, msg)

\* One listener of the event of m, registered by an effect run whose render
\* saw localStream
Handle(localStream, pcseq, r, m) ==
    CASE m.ev = "user-connected" -> onUserConnected(pcseq, r, localStream)
      [] m.ev = "offer" -> handleOffer(pcseq, r, m.desc)
      [] m.ev = "answer" -> onAnswer(pcseq, r, m.desc)
      [] m.ev = "ice-candidate" -> onIceCandidate(pcseq, r, m.cand)
      [] OTHER -> pcseq

\* socket.io calls every listener registered for the event, in registration order
RECURSIVE Dispatch(_, _, _, _)
Dispatch(ls, pcseq, r, m) ==
    IF ls = <<>> THEN pcseq
    ELSE Dispatch(Tail(ls), Handle(Head(ls), pcseq, r, m), r, m)

RECURSIVE DispatchChat(_, _, _)
DispatchChat(ls, prev, text) ==
    IF ls = <<>> THEN prev
    ELSE DispatchChat(Tail(ls), onReceiveMessage(prev, text), text)

\* The listener effect runs when [socket, localStream] differs from the last
\* run; it registers a further set of listeners and removes none.
DepsChanged(ls, stream) == ls = <<>> \/ ls[Len(ls)] # stream

RunEffect(ls, stream) == IF DepsChanged(ls, stream) THEN Append(ls, stream) ELSE ls

\* (mutant) an effect without its dependency array: the cleanup runs on every render
CleanupEveryRender(ls, stream, pcseq, r) ==
    IF ls # <<>> /\ r # 0
    THEN [pcseq EXCEPT ![r] = Close(@)]
    ELSE pcseq

\* The cleanup of the previous effect run, when there was one
Cleanup(ls, stream, pcseq, r) ==
    IF ls # <<>> /\ DepsChanged(ls, stream) /\ r # 0
    THEN [pcseq EXCEPT ![r] = Close(@)]
    ELSE pcseq

sendMessageText(u, msg) == u \o ": " \o msg

(*************************** initial state *********************************)
Init ==
    /\ media = [c \in Clients |-> "pending"]
    /\ roomId = [c \in Clients |-> ""]
    /\ userId = [c \in Clients |-> ""]
    /\ listeners = [c \in Clients |-> <<>>]
    /\ pcs = [c \in Clients |-> <<>>]
    /\ ref = [c \in Clients |-> 0]
    /\ inbox = [c \in Clients |-> <<>>]
    /\ room = {}
    /\ messages = [c \in Clients |-> <<>>]
    /\ loading = [c \in Clients |-> FALSE]
    /\ error = [c \in Clients |-> ""]
    /\ isScreenSharing = [c \in Clients |-> FALSE]
    /\ live = [c \in Clients |-> {}]
    /\ emitted = [c \in Clients |-> [e \in Events |-> 0]]
    /\ outstanding = [c \in Clients |-> 0]
    /\ invoked = [c \in Clients |-> 0]
    /\ lostCands = [c \in Clients |-> 0]
    /\ joinLog = <<>>
    /\ shareRound = [c \in Clients |-> -1]
    /\ presses = 0
    /\ chatWhenClosed = FALSE
    /\ alerted = FALSE


(*************************** user and media actions ************************)
\* getUserMedia settles: setLocalStream re-renders and the listener effect runs
GetLocalMedia(c, granted) ==
    /\ media[c] = "pending"
    /\ IF granted
       THEN /\ media' = [media EXCEPT ![c] = "granted"]
            /\ live' = [live EXCEPT ![c] = @ \cup CameraTracks]
            /\ listeners' = [listeners EXCEPT ![c] = RunEffect(@, TRUE)]
            /\ pcs' = [pcs EXCEPT ![c] = Cleanup(listeners[c], TRUE, @, ref[c])]
       ELSE /\ media' = [media EXCEPT ![c] = "denied"]
            /\ UNCHANGED <<live, listeners, pcs>>
    /\ UNCHANGED <<roomId, userId, ref, inbox, room, messages, loading, error,
                   isScreenSharing, emitted, outstanding, invoked, lostCands,
                   joinLog, shareRound, presses, chatWhenClosed, alerted>>

\* A state change re-renders the component; the render sees the socket
\* useSocket made, and the listener effect runs if its dependencies changed.
\* (A connection exists only once the stream does, so the renders caused by
\* joinRoom, by the handlers and by a share with a connection find the
\* dependencies unchanged.)
Rendered(c) ==
    /\ listeners' = [listeners EXCEPT ![c] = RunEffect(@, media[c] = "granted")]
    /\ pcs' = [pcs EXCEPT ![c] =
                 Cleanup(listeners[c], media[c] = "granted", @, ref[c])]

\* The room id and the name are typed once each, into an empty field
SetRoomId(c, v) ==
    /\ roomId[c] = ""
    /\ v # ""
    /\ roomId' = [roomId EXCEPT ![c] = v]
    /\ Rendered(c)
    /\ UNCHANGED <<media, userId, ref, inbox, room, messages, loading, error,
                   isScreenSharing, live, emitted, outstanding, invoked,
                   lostCands, joinLog, shareRound, presses, chatWhenClosed, alerted>>

SetUserId(c, v) ==
    /\ userId[c] = ""
    /\ v # ""
    /\ userId' = [userId EXCEPT ![c] = v]
    /\ Rendered(c)
    /\ UNCHANGED <<media, roomId, ref, inbox, room, messages, loading, error,
                   isScreenSharing, live, emitted, outstanding, invoked,
                   lostCands, joinLog, shareRound, presses, chatWhenClosed, alerted>>

\* initializePeerConnection: a new connection replaces the ref
initializePeerConnection(pcseq) == Append(pcseq, NewPeerConnection(CameraTracks))

\* The relay on join-room: c becomes a member, the members already there are
\* told user-connected
RelayJoin(c, rm, box) ==
    [d \in Clients |->
        IF d # c /\ d \in rm
        THEN Append(box[d], Msg("user-connected", NoDesc, NoCand, userId[c]))
        ELSE box[d]]

\* (mutant) the identifiers are validated only after join-room has been emitted
joinRoomLateCheck(c) ==
    /\ emitted' = Count(emitted, c, "join-room")
    /\ room' = room \cup {c}
    /\ inbox' = RelayJoin(c, room, inbox)
    /\ joinLog' = Append(joinLog, c)
    /\ IF roomId[c] = "" \/ userId[c] = ""
       THEN /\ alerted' = TRUE
            /\ loading' = [loading EXCEPT ![c] = TRUE]
            /\ error' = [error EXCEPT ![c] = ""]
            /\ UNCHANGED <<pcs, ref>>
       ELSE /\ alerted' = FALSE
            /\ IF media[c] = "granted"
               THEN /\ pcs' = [pcs EXCEPT ![c] = initializePeerConnection(@)]
                    /\ ref' = [ref EXCEPT ![c] = Len(pcs[c]) + 1]
                    /\ loading' = [loading EXCEPT ![c] = TRUE]
                    /\ error' = [error EXCEPT ![c] = ""]
               ELSE /\ loading' = [loading EXCEPT ![c] = FALSE]
                    /\ error' = [error EXCEPT ![c] = "media"]
                    /\ UNCHANGED <<pcs, ref>>
    /\ UNCHANGED <<media, roomId, userId, listeners, messages, isScreenSharing,
                   live, outstanding, invoked, lostCands, shareRound, presses,
                   chatWhenClosed>>

joinRoom(c) ==
    /\ IF roomId[c] = "" \/ userId[c] = ""
       THEN /\ alerted' = TRUE
            /\ UNCHANGED <<pcs, ref, inbox, room, loading, error, emitted, joinLog>>
       ELSE /\ alerted' = FALSE
            /\ emitted' = Count(emitted, c, "join-room")
            /\ room' = room \cup {c}
            /\ inbox' = RelayJoin(c, room, inbox)
            /\ joinLog' = Append(joinLog, c)
            /\ IF media[c] = "granted"
               THEN /\ pcs' = [pcs EXCEPT ![c] = initializePeerConnection(@)]
                    /\ ref' = [ref EXCEPT ![c] = Len(pcs[c]) + 1]
                    /\ loading' = [loading EXCEPT ![c] = TRUE]
                    /\ error' = [error EXCEPT ![c] = ""]
               ELSE /\ loading' = [loading EXCEPT ![c] = FALSE]
                    /\ error' = [error EXCEPT ![c] = "media"]
                    /\ UNCHANGED <<pcs, ref>>
    /\ UNCHANGED <<media, roomId, userId, listeners, messages, isScreenSharing,
                   live, outstanding, invoked, lostCands, shareRound, presses,
                   chatWhenClosed>>

\* Join Room is pressed; the model follows MaxJoins joins
JoinRoom(c) ==
    /\ Len(joinLog) < MaxJoins
    /\ joinRoom(c)

\* Both users are set up before anyone joins, and the two take turns
\* pressing Join Room; the model follows MaxRejoins joins
TakeTurns(c) ==
    /\ \A d \in Clients : media[d] = "granted" /\ roomId[d] # "" /\ userId[d] # ""
    /\ Len(joinLog) < MaxRejoins
    /\ IF joinLog = <<>> THEN TRUE ELSE joinLog[Len(joinLog)] # c
    /\ joinRoom(c)

sendMessage(c, msg) ==
    /\ presses < MaxPresses
    /\ IF msg # ""
       THEN /\ presses' = presses + 1
            /\ emitted' = Count(emitted, c, "send-message")
            /\ inbox' = Forward(c, room, inbox,
                            Msg("receive-message", NoDesc, NoCand,
                                sendMessageText(userId[c], msg)))
            /\ messages' = [messages EXCEPT ![c] =
                               Append(@, sendMessageText(userId[c], msg))]
            /\ chatWhenClosed' = (chatWhenClosed \/ Phase(c) = "closed")
            /\ Rendered(c)
       ELSE UNCHANGED <<emitted, inbox, messages, presses, listeners, pcs,
                       chatWhenClosed>>
    /\ UNCHANGED <<media, roomId, userId, ref, room, loading, error,
                   isScreenSharing, live, outstanding, invoked, lostCands,
                   joinLog, shareRound, alerted>>

\* getDisplayMedia settles. The display tracks are added to the connection;
\* the screen <video> is mounted only while isScreenSharing, so the
\* assignment through screenVideoRef.current throws when it is not.
startScreenShare(c, granted) ==
    /\ presses < MaxPresses
    /\ presses' = presses + 1
    /\ IF ~granted
       THEN /\ error' = [error EXCEPT ![c] = "screen"]
            /\ Rendered(c)
            /\ UNCHANGED <<live, isScreenSharing>>
       ELSE /\ live' = [live EXCEPT ![c] = @ \cup DisplayTracks]
            /\ IF ref[c] = 0
               THEN UNCHANGED <<pcs, error, isScreenSharing, listeners>>
               ELSE IF pcs[c][ref[c]].closed
               THEN /\ error' = [error EXCEPT ![c] = "screen"]
                    /\ UNCHANGED <<pcs, isScreenSharing, listeners>>
               ELSE /\ pcs' = [pcs EXCEPT ![c][ref[c]].tracks = @ \cup DisplayTracks]
                    /\ UNCHANGED listeners
                    /\ IF isScreenSharing[c]
                       THEN /\ isScreenSharing' = [isScreenSharing EXCEPT ![c] = TRUE]
                            /\ UNCHANGED error
                       ELSE /\ error' = [error EXCEPT ![c] = "screen"]
                            /\ UNCHANGED isScreenSharing
    /\ shareRound' = [shareRound EXCEPT ![c] =
                         IF granted /\ ref[c] # 0 /\ Connected(pcs[c], ref[c])
                         THEN emitted[c]["offer"] ELSE @]
    /\ UNCHANGED <<media, roomId, userId, ref, inbox, room, messages,
                   loading, emitted, outstanding, invoked, lostCands, joinLog,
                   chatWhenClosed, alerted>>

\* stopScreenShare: the Stop Screen Share button is mounted only while
\* isScreenSharing. It stops the tracks of the stream the screen <video> shows
\* and clears isScreenSharing; the connection keeps its senders.
stopScreenShare(c) ==
    /\ isScreenSharing[c]
    /\ live' = [live EXCEPT ![c] = @ \ DisplayTracks]
    /\ isScreenSharing' = [isScreenSharing EXCEPT ![c] = FALSE]
    /\ Rendered(c)
    /\ UNCHANGED <<media, roomId, userId, ref, inbox, room, messages, loading,
                   error, emitted, outstanding, invoked, lostCands, joinLog,
                   shareRound, presses, chatWhenClosed, alerted>>

\* disconnect: close the connection in the ref, emit "disconnect". The render
\* before any re-render holds a null socket, and the emit throws.
disconnect(c) ==
    /\ presses < MaxPresses
    /\ presses' = presses + 1
    /\ pcs' = [pcs EXCEPT ![c] = IF ref[c] = 0 THEN @ ELSE [@ EXCEPT ![ref[c]] = Close(@)]]
    /\ outstanding' = [outstanding EXCEPT ![c] = IF ref[c] = 0 THEN @ ELSE 0]
    /\ IF listeners[c] # <<>>
       THEN /\ emitted' = Count(emitted, c, "disconnect")
            /\ room' = room \ {c}
       ELSE UNCHANGED <<emitted, room>>
    /\ UNCHANGED <<media, roomId, userId, listeners, ref, inbox, messages,
                   loading, error, isScreenSharing, live, invoked, lostCands,
                   joinLog, shareRound, chatWhenClosed, alerted>>


(*************************** inbound events *******************************)
\* The head of the inbox is delivered: every registered listener of its event runs
Delivered(c, ev) ==
    /\ inbox[c] # <<>>
    /\ Head(inbox[c]).ev = ev
    /\ inbox' = [inbox EXCEPT ![c] = Tail(@)]
    /\ invoked' = [invoked EXCEPT ![c] = Len(listeners[c])]

OnUserConnected(c) ==
    /\ Delivered(c, "user-connected")
    /\ pcs' = [pcs EXCEPT ![c] = Dispatch(listeners[c], @, ref[c], Head(inbox[c]))]
    /\ UNCHANGED <<media, roomId, userId, listeners, ref, room, messages,
                   loading, error, isScreenSharing, live, emitted, outstanding,
                   lostCands, joinLog, shareRound, presses, chatWhenClosed, alerted>>

OnOffer(c) ==
    /\ Delivered(c, "offer")
    /\ pcs' = [pcs EXCEPT ![c] = Dispatch(listeners[c], @, ref[c], Head(inbox[c]))]
    /\ UNCHANGED <<media, roomId, userId, listeners, ref, room, messages,
                   loading, error, isScreenSharing, live, emitted, outstanding,
                   lostCands, joinLog, shareRound, presses, chatWhenClosed, alerted>>

OnAnswer(c) ==
    /\ Delivered(c, "answer")
    /\ pcs' = [pcs EXCEPT ![c] = Dispatch(listeners[c], @, ref[c], Head(inbox[c]))]
    /\ outstanding' = [outstanding EXCEPT ![c] = 0]
    /\ UNCHANGED <<media, roomId, userId, listeners, ref, room, messages,
                   loading, error, isScreenSharing, live, emitted, lostCands,
                   joinLog, shareRound, presses, chatWhenClosed, alerted>>

OnIceCandidate(c) ==
    /\ Delivered(c, "ice-candidate")
    /\ pcs' = [pcs EXCEPT ![c] = Dispatch(listeners[c], @, ref[c], Head(inbox[c]))]
    /\ lostCands' = [lostCands EXCEPT ![c] =
                       IF pcs'[c] = pcs[c] THEN @ + 1 ELSE @]
    /\ UNCHANGED <<media, roomId, userId, listeners, ref, room, messages,
                   loading, error, isScreenSharing, live, emitted, outstanding,
                   joinLog, shareRound, presses, chatWhenClosed, alerted>>

OnReceiveMessage(c) ==
    /\ Delivered(c, "receive-message")
    /\ messages' = [messages EXCEPT ![c] =
                      DispatchChat(listeners[c], @, Head(inbox[c]).text)]
    /\ chatWhenClosed' = (chatWhenClosed \/ Phase(c) = "closed")
    /\ Rendered(c)
    /\ UNCHANGED <<media, roomId, userId, ref, room, loading,
                   error, isScreenSharing, live, emitted, outstanding,
                   lostCands, joinLog, shareRound, presses, alerted>>

(*************************** operations settling ***************************)
\* The first operation of connection p's chain is of kind o
Settles(c, p, o) ==
    /\ p \in 1..Len(pcs[c])
    /\ ~pcs[c][p].closed
    /\ pcs[c][p].chain # <<>>
    /\ Head(pcs[c][p].chain).op = o

\* createOffer: `await createOffer()` settles; setLocalDescription(offer) is
\* called on the connection the ref holds now
ResolveCreateOffer(c, p) ==
    /\ Settles(c, p, "createOffer")
    /\ LET pc == pcs[c][p]
           offer == [type |-> "offer", from |-> c, pc |-> p, re |-> 0,
                     tracks |-> pc.tracks]
           popped == [pcs[c] EXCEPT ![p] = Pop(pc)]
       IN pcs' = [pcs EXCEPT ![c] =
                    CallOn(popped, ref[c], Op("setLocal", offer, NoCand, "emit", FALSE))]
    /\ UNCHANGED <<media, roomId, userId, listeners, ref, inbox, room, messages,
                   loading, error, isScreenSharing, live, emitted, outstanding,
                   invoked, lostCands, joinLog, shareRound, presses, chatWhenClosed, alerted>>

\* handleOffer: `await createAnswer()` settles; setLocalDescription(answer) follows
ResolveCreateAnswer(c, p) ==
    /\ Settles(c, p, "createAnswer")
    /\ LET pc == pcs[c][p]
           answer == [type |-> "answer", from |-> c, pc |-> p,
                      re |-> pc.remote.pc, tracks |-> pc.tracks]
           popped == [pcs[c] EXCEPT ![p] = Pop(pc)]
       IN pcs' = [pcs EXCEPT ![c] =
                    IF pc.sig = "have-remote-offer"
                    THEN CallOn(popped, ref[c],
                                Op("setLocal", answer, NoCand, "emit", FALSE))
                    ELSE popped]
    /\ UNCHANGED <<media, roomId, userId, listeners, ref, inbox, room, messages,
                   loading, error, isScreenSharing, live, emitted, outstanding,
                   invoked, lostCands, joinLog, shareRound, presses, chatWhenClosed, alerted>>

\* `await setLocalDescription(d)` settles; on success socket.emit(d.type, d)
ResolveSetLocal(c, p) ==
    /\ Settles(c, p, "setLocal")
    /\ LET pc == pcs[c][p]
           d == Head(pc.chain).desc
       IN IF LocalOk(pc, p, d)
          THEN /\ pcs' = [pcs EXCEPT ![c][p] = ApplyLocal(Pop(pc), d)]
               /\ emitted' = Count(emitted, c, d.type)
               /\ inbox' = Forward(c, room, inbox, Msg(d.type, d, NoCand, ""))
               /\ outstanding' = [outstanding EXCEPT ![c] =
                                    IF d.type = "offer" THEN @ + 1 ELSE @]
          ELSE /\ pcs' = [pcs EXCEPT ![c][p] = Pop(pc)]
               /\ UNCHANGED <<emitted, inbox, outstanding>>
    /\ UNCHANGED <<media, roomId, userId, listeners, ref, room, messages,
                   loading, error, isScreenSharing, live, invoked, lostCands,
                   joinLog, shareRound, presses, chatWhenClosed, alerted>>

\* setRemoteDescription(d) settles; handleOffer goes on to createAnswer, the
\* answer listener has nothing after it. ontrack clears loading.
ResolveSetRemote(c, p) ==
    /\ Settles(c, p, "setRemote")
    /\ \E rollback \in BOOLEAN :
         LET pc == pcs[c][p]
             o == Head(pc.chain)
             applied == [pcs[c] EXCEPT ![p] = ApplyRemote(Pop(pc), o.desc)]
         IN IF RemoteOk(pc, o.desc, rollback)
            THEN /\ pcs' = [pcs EXCEPT ![c] =
                              IF o.cont = "createAnswer"
                              THEN CallOn(applied, ref[c],
                                          Op("createAnswer", NoDesc, NoCand,
                                             "setLocal", FALSE))
                              ELSE applied]
                 /\ loading' = [loading EXCEPT ![c] = FALSE]
            ELSE /\ pcs' = [pcs EXCEPT ![c][p] = Pop(pc)]
                 /\ UNCHANGED loading
    /\ UNCHANGED <<media, roomId, userId, listeners, ref, inbox, room, messages,
                   error, isScreenSharing, live, emitted, outstanding, invoked,
                   lostCands, joinLog, shareRound, presses, chatWhenClosed, alerted>>

\* addIceCandidate settles
ResolveAddIce(c, p) ==
    /\ Settles(c, p, "addIce")
    /\ LET pc == pcs[c][p]
       IN IF IceOk(pc)
          THEN /\ pcs' = [pcs EXCEPT ![c][p] = ApplyIce(Pop(pc), Head(pc.chain))]
               /\ UNCHANGED lostCands
          ELSE /\ pcs' = [pcs EXCEPT ![c][p] = Pop(pc)]
               /\ lostCands' = [lostCands EXCEPT ![c] = @ + 1]
    /\ UNCHANGED <<media, roomId, userId, listeners, ref, inbox, room, messages,
                   loading, error, isScreenSharing, live, emitted, outstanding,
                   invoked, joinLog, shareRound, presses, chatWhenClosed, alerted>>

\* onicecandidate: a connection with a local description gathers a candidate
\* and the handler emits it
OnLocalCandidate(c, p) ==
    /\ p \in 1..Len(pcs[c])
    /\ ~pcs[c][p].closed
    /\ pcs[c][p].local # NoDesc
    /\ pcs[c][p].gathered < MaxCand
    /\ pcs' = [pcs EXCEPT ![c][p].gathered = @ + 1]
    /\ emitted' = Count(emitted, c, "ice-candidate")
    /\ inbox' = Forward(c, room, inbox,
                    Msg("ice-candidate", NoDesc,
                        [from |-> c, pc |-> p, k |-> pcs[c][p].gathered + 1], ""))
    /\ UNCHANGED <<media, roomId, userId, listeners, ref, room, messages,
                   loading, error, isScreenSharing, live, outstanding, invoked,
                   lostCands, joinLog, shareRound, presses, chatWhenClosed, alerted>>

(*************************** specification *********************************)
PcIds == 1..(IF MaxJoins > MaxRejoins THEN MaxJoins ELSE MaxRejoins)

\* The user and the devices
Env ==
    \/ \E c \in Clients, g \in BOOLEAN : GetLocalMedia(c, g)
    \/ \E c \in Clients, v \in RoomIds : SetRoomId(c, v)
    \/ \E c \in Clients : SetUserId(c, NameOf(c))
    \/ \E c \in Clients : JoinRoom(c)

\* The user and the devices before a join
Setup ==
    \/ \E c \in Clients, g \in BOOLEAN : GetLocalMedia(c, g)
    \/ \E c \in Clients, v \in RoomIds : SetRoomId(c, v)
    \/ \E c \in Clients : SetUserId(c, NameOf(c))

\* Offer/answer negotiation
Negotiation ==
    \/ \E c \in Clients : OnUserConnected(c)
    \/ \E c \in Clients : OnOffer(c)
    \/ \E c \in Clients : OnAnswer(c)
    \/ \E c \in Clients, p \in PcIds : ResolveCreateOffer(c, p)
    \/ \E c \in Clients, p \in PcIds : ResolveCreateAnswer(c, p)
    \/ \E c \in Clients, p \in PcIds : ResolveSetLocal(c, p)
    \/ \E c \in Clients, p \in PcIds : ResolveSetRemote(c, p)

\* ICE candidates
Ice ==
    \/ \E c \in Clients, p \in PcIds : OnLocalCandidate(c, p)
    \/ \E c \in Clients : OnIceCandidate(c)
    \/ \E c \in Clients, p \in PcIds : ResolveAddIce(c, p)

Chatting ==
    \/ \E c \in Clients, t \in Texts : sendMessage(c, t)
    \/ \E c \in Clients : OnReceiveMessage(c)

Session ==
    \/ \E c \in Clients, g \in BOOLEAN : startScreenShare(c, g)
    \/ \E c \in Clients : disconnect(c)

Next ==
    \/ Env \/ Negotiation \/ Ice \/ Chatting \/ Session
    \/ \E c \in Clients : stopScreenShare(c)

Spec == Init /\ [][Next]_vars

\* Negotiation with candidates, the session left running
NegotiationSpec == Init /\ [][Env \/ Negotiation \/ Ice]_vars

\* Negotiation with screen sharing and disconnect
SessionSpec == Init /\ [][Env \/ Negotiation \/ Session]_vars

\* Joining only: nothing the relay sends is handled yet
JoinSpec == Init /\ [][Env]_vars

\* Leaving and joining again: the two users join in turn, twice each
RejoinSpec ==
    Init /\ [][Setup \/ Negotiation \/ \E c \in Clients : TakeTurns(c)]_vars

\* Negotiation with chat and disconnect
ChatSpec ==
    Init /\ [][Env \/ Negotiation \/ Chatting \/ \E c \in Clients : disconnect(c)]_vars


(*************************** properties ************************************)
Quiescent ==
    /\ \A c \in Clients : inbox[c] = <<>>
    /\ \A c \in Clients : \A p \in 1..Len(pcs[c]) : pcs[c][p].chain = <<>>

HasLocalOffer(c) == ref[c] # 0 /\ pcs[c][ref[c]].sig = "have-local-offer"

C2_NoCandidateLost == \A c \in Clients : lostCands[c] = 0

\* C3: at most one offer is emitted between answers (or closes).
C3_OneOutstandingOffer == \A c \in Clients : outstanding[c] <= 1

\* C4: A joined first and B second, each once: when nothing is in flight any
\* more, both are Connected after exactly one offer from A and one answer from B.
C4_MirrorPeersConverge ==
    (joinLog = <<"A", "B">> /\ Quiescent) =>
        /\ Connected(pcs["A"], ref["A"])
        /\ Connected(pcs["B"], ref["B"])
        /\ emitted["A"]["offer"] = 1 /\ emitted["B"]["answer"] = 1
        /\ emitted["B"]["offer"] = 0 /\ emitted["A"]["answer"] = 0

\* With a connection on both sides (local media was ready at both joins) the
\* two do converge.
MirrorPeersWithMediaConverge ==
    (joinLog = <<"A", "B">> /\ Quiescent /\ ref["A"] # 0 /\ ref["B"] # 0) =>
        /\ Connected(pcs["A"], ref["A"])
        /\ Connected(pcs["B"], ref["B"])
        /\ emitted["A"]["offer"] = 1 /\ emitted["B"]["answer"] = 1
        /\ emitted["B"]["offer"] = 0 /\ emitted["A"]["answer"] = 0

\* C5: display tracks added to a Connected connection drive exactly one more
\* offer: when nothing is in flight any more, one offer has followed the share.
C5_ShareRenegotiates ==
    \A c \in Clients :
        (/\ shareRound[c] >= 0
         /\ Quiescent
         /\ \A d \in Clients : emitted[d]["disconnect"] = 0
         /\ Len(joinLog) = 2)
        => emitted[c]["offer"] = shareRound[c] + 1

\* C6: a disconnect leaves the connection closed and every local track stopped.
C6_DisconnectReleases ==
    [][\A c \in Clients :
         emitted'[c]["disconnect"] > emitted[c]["disconnect"] =>
            /\ live'[c] = {}
            /\ ref[c] # 0 => pcs'[c][ref[c]].closed]_vars

\* C7: a disconnect of a client that is already Closed sends nothing.
C7_DisconnectIdempotent ==
    [][\A c \in Clients :
         (ref[c] # 0 /\ pcs[c][ref[c]].closed) =>
            emitted'[c]["disconnect"] = emitted[c]["disconnect"]]_vars

\* C8: the two participants never hold a local offer at the same time.
C8_NoGlare == ~(HasLocalOffer("A") /\ HasLocalOffer("B"))

\* C9: an inbound message is handled by one handler invocation.
C9_OneInvocation == \A c \in Clients : invoked[c] <= 1

\* A client never emits more answers than its peer emitted offers.
AnswersNeverExceedOffers == \A c \in Clients : emitted[c]["answer"] <= emitted[Peer(c)]["offer"]

RECURSIVE IsSubseq(_, _)
IsSubseq(s, t) ==
    IF s = <<>> THEN TRUE
    ELSE IF t = <<>> THEN FALSE
    ELSE IF Head(s) = Head(t) THEN IsSubseq(Tail(s), Tail(t))
    ELSE IsSubseq(s, Tail(t))

SaidBy(c, list) ==
    SelectSeq(list, LAMBDA m : \E t \in Texts : m = sendMessageText(NameOf(c), t))

\* C10: what B's list holds of A's messages is what A sent, once each, in
\* A's send order.
C10_ChatExactlyOnce ==
    \A c \in Clients :
        IsSubseq(SaidBy(c, messages[Peer(c)]), SaidBy(c, messages[c]))

\* C11: a chat handler (sendMessage, the receive-message listener) leaves the
\* peer connections and the ref as they are, in whatever negotiation phase it
\* runs, and a receive-message that is delivered is rendered in every phase.
C11_ChatLeavesNegotiation ==
    [][/\ (messages' # messages) => (pcs' = pcs /\ ref' = ref)
       /\ \A c \in Clients :
            (/\ inbox[c] # <<>>
             /\ inbox'[c] = Tail(inbox[c])
             /\ Head(inbox[c]).ev = "receive-message")
            => /\ Len(messages'[c]) > Len(messages[c])
               /\ messages'[c][Len(messages'[c])] = Head(inbox[c]).text]_vars

\* a chat handler has run at a client whose connection was closed
C11_Witness == chatWhenClosed

\* C12: a Join Room press with an empty room id or an empty name ends in the
\* alert and nothing else: nothing is emitted or relayed, no connection is
\* created, and loading and error stay as they were.
C12_EmptyJoinRejected ==
    [][(alerted' /\ ~alerted) =>
          /\ emitted' = emitted /\ inbox' = inbox /\ room' = room
          /\ pcs' = pcs /\ ref' = ref
          /\ loading' = loading /\ error' = error]_vars

\* Join Room was pressed while an identifier was empty
C12_Witness ==
    alerted /\ \E c \in Clients : roomId[c] = "" \/ userId[c] = ""

\* C13: a client whose camera and microphone were refused shows the error
\* when it joins and stays out of the session: it does not announce itself to
\* the room with join-room, holds no connection and sends no offer or answer.
C13_RefusedJoinStaysOut ==
    [][\A c \in Clients :
         media[c] = "denied" =>
            /\ emitted'[c]["join-room"] = emitted[c]["join-room"]
            /\ ref'[c] = 0
            /\ emitted'[c]["offer"] = 0 /\ emitted'[c]["answer"] = 0
            /\ (error'[c] # error[c]) => error'[c] # ""]_vars

\* The step settles a setRemoteDescription or setLocalDescription of connection
\* p that the connection cannot accept: the operation leaves the chain and the
\* connection is otherwise as it was
DescriptionRejected(c, p) ==
    /\ p \in 1..Len(pcs[c])
    /\ ~pcs[c][p].closed
    /\ pcs[c][p].chain # <<>>
    /\ LET pc == pcs[c][p]
           o == Head(pc.chain)
       IN \/ o.op = "setRemote" /\ ~RemoteOk(pc, o.desc, TRUE)
          \/ o.op = "setLocal" /\ ~LocalOk(pc, p, o.desc)
    /\ pcs'[c] = [pcs[c] EXCEPT ![p] = Pop(@)]

\* C14: when a description cannot be applied, the round is abandoned (nothing
\* is emitted for it) and the failure is reported in the error state.
C14_DescriptionFailureReported ==
    [][\A c \in Clients : \A p \in PcIds :
         DescriptionRejected(c, p) =>
            /\ emitted'[c] = emitted[c]
            /\ error'[c] # ""]_vars

\* C15: an answer is applied to a connection only for the offer that
\* connection has outstanding: the remote answer of a connection answers an
\* offer of that connection, never one made by a connection it replaced.
C15_AnswerForOutstandingOffer ==
    \A c \in Clients : \A p \in 1..Len(pcs[c]) :
        pcs[c][p].remote.type = "answer" => pcs[c][p].remote.re = p

\* What the engine does keep: a connection takes an answer only while it is
\* in have-local-offer.
AnswerOnlyInLocalOffer ==
    [][\A c \in Clients : \A p \in 1..Len(pcs[c]) :
         (pcs'[c][p].remote # pcs[c][p].remote /\ pcs'[c][p].remote.type = "answer")
            => pcs[c][p].sig = "have-local-offer"]_vars

\* The description operations (create or apply) pending on a connection
DescriptionOps(pc) ==
    SelectSeq(pc.chain,
              LAMBDA o : o.op \in {"createOffer", "createAnswer", "setLocal", "setRemote"})

\* C16: description steps are serialized: a handler's round has one
\* description operation pending at a time, so a connection never has two
\* pending, which takes a second handler begun while a round is in flight.
C16_DescriptionStepsSerialized ==
    \A c \in Clients : \A p \in 1..Len(pcs[c]) :
        Len(DescriptionOps(pcs[c][p])) <= 1

\* startScreenShare never gets as far as setIsScreenSharing(true), so the
\* Stop Screen Share button is never mounted and stopScreenShare never runs.
NeverSharing == \A c \in Clients : ~isScreenSharing[c]

\* A closed connection is never touched again.
ClosedConnectionFrozen ==
    [][\A c \in Clients : \A p \in 1..Len(pcs[c]) :
         pcs[c][p].closed => pcs'[c][p] = pcs[c][p]]_vars

\* C18: Closed is terminal: while the connection in the ref is closed, nothing
\* is applied to it, and the client emits no offer and no answer (a round
\* that was in flight at the disconnect is abandoned).
C18_ClosedIsTerminal ==
    [][\A c \in Clients :
         Phase(c) = "closed" =>
            /\ pcs'[c][ref[c]] = pcs[c][ref[c]] \/ ref'[c] # ref[c]
            /\ emitted'[c]["offer"] = emitted[c]["offer"]
            /\ emitted'[c]["answer"] = emitted[c]["answer"]]_vars

\* The connections of c that are not closed
OpenConnections(c) == {p \in 1..Len(pcs[c]) : ~pcs[c][p].closed}

\* C19: a client holds at most one connection that is not closed.
C19_OneOpenConnection ==
    \A c \in Clients : Cardinality(OpenConnections(c)) <= 1

\* C20: display tracks are live, or attached to a connection that is not
\* closed, only while isScreenSharing.
C20_ShareStateConsistent ==
    \A c \in Clients :
        (\/ live[c] \cap DisplayTracks # {}
         \/ \E p \in OpenConnections(c) : pcs[c][p].tracks \cap DisplayTracks # {})
        => isScreenSharing[c]

====
